---- MODULE Spec2Model ----
(***************************************************************************)
(* Nyay Sahayak RAG core: the index builder (build_index.py), the loaded   *)
(* pipeline and its retrieve (rag_pipeline.py), the query handler          *)
(* (query_handler.py) and the /ingest and /health routes (ai_routes.py).   *)
(*                                                                         *)
(* Strings that the code compares (city, incident_type) are sequences of   *)
(* one-character strings, so lower(), strip() and `in` are computed.       *)
(* A chunk's text is the word window <<lo, hi>> of its file.               *)
(***************************************************************************)
EXTENDS Integers, Sequences, FiniteSets, TLC

VARIABLES
    dataDir,        \* DATA_DIR: absent, or the files it lists (enumeration order)
    indexFile,      \* index/faiss_index.faiss
    metaFile,       \* index/metadata.jsonl
    bpc,            \* build_index.main: position of the build process
    brun,           \* who started the build process: the operator or /ingest
    docs,           \* build_index.main: its local list `docs`
    bexit,          \* how the build process ended (return code, stdout)
    prior,          \* the two index files as they were when the build process started
    edits,          \* number of corpus edits made by the operator so far
    rag_pipeline,   \* rag_pipeline._rag_pipeline, the global instance
    installedBy,    \* which function assigned _rag_pipeline last
    query_handler,  \* ai_routes._query_handler and its self.rag_pipeline
    lpc,            \* RAGPipeline.__init__: position of the running constructor
    lfor,           \* the caller of the running constructor
    loading,        \* the instance under construction (self)
    loadError,      \* the exception the constructor has just raised
    ret,            \* the retrieve call that has just returned
    ingest,         \* the response POST /ingest has just sent
    health          \* the response GET /health has just sent

disk == <<dataDir, indexFile, metaFile>>
builder == <<bpc, brun, docs, bexit, prior>>
loader == <<lpc, lfor, loading>>
server == <<rag_pipeline, installedBy, query_handler>>
outs == <<loadError, ret, ingest, health>>
vars == <<disk, builder, edits, loader, server, outs>>

(***************************************************************************)
(* Bounds of the model.                                                    *)
(***************************************************************************)
MaxCorpus == 4
MaxEdits == 1

(***************************************************************************)
(* Program constants.                                                      *)
(***************************************************************************)
CHUNK_SIZE_WORDS == 450
CHUNK_OVERLAP == 80
TOP_K_RETRIEVAL == 3
HeaderLines == 10

Min(a, b) == IF a < b THEN a ELSE b

(***************************************************************************)
(* Strings.                                                                *)
(***************************************************************************)
Empty == <<>>
Mumbai == <<"M", "u", "m">>
mumbai_central == <<"m", "u", "m", " ", "c">>
Mumbai_Central == <<"M", "u", "m", " ", "C">>
Delhi == <<"D", "e", "l">>
UPI == <<"U", "P", "I">>
upi_fraud == <<"u", "p", "i", " ", "f">>
Blank == <<" ">>

\* str.lower() on one character
LowerChar(c) ==
    CASE c = "M" -> "m"
      [] c = "C" -> "c"
      [] c = "D" -> "d"
      [] c = "U" -> "u"
      [] c = "P" -> "p"
      [] c = "I" -> "i"
      [] OTHER -> c

lower(s) == [i \in 1..Len(s) |-> LowerChar(s[i])]

RECURSIVE lstrip(_)
lstrip(s) == IF s # <<>> /\ Head(s) = " " THEN lstrip(Tail(s)) ELSE s

RECURSIVE rstrip(_)
rstrip(s) ==
    IF s # <<>> /\ s[Len(s)] = " " THEN rstrip(SubSeq(s, 1, Len(s) - 1)) ELSE s

strip(s) == rstrip(lstrip(s))

\* Python's `a in b` on strings
contains(b, a) ==
    \E i \in 0..(Len(b) - Len(a)) : SubSeq(b, i + 1, i + Len(a)) = a

\* len(s.split()) for a stripped, single-spaced value
NumWords(s) ==
    IF strip(s) = <<>> THEN 0
    ELSE 1 + Cardinality({i \in 1..Len(strip(s)) : strip(s)[i] = " "})

(***************************************************************************)
(* Files of the corpus. A file is its extension, its `key: value` lines    *)
(* (all within the first lines of the file) and the number of words that   *)
(* follow them.                                                            *)
(***************************************************************************)
Line(k, v) == [k |-> k, v |-> v]

DocTagged ==
    [ext |-> "txt",
     header |-> <<Line("city", Mumbai), Line("incident_type", UPI)>>,
     body |-> 3]
DocLong == [ext |-> "md", header |-> <<Line("title", Delhi)>>, body |-> 500]
DocOther == [ext |-> "pdf", header |-> <<Line("city", Delhi)>>, body |-> 3]

\* sample_template.txt, written by main() on first run
sample_template ==
    [ext |-> "txt",
     header |-> <<Line("source_name", <<"s">>), Line("url", <<"h">>),
                  Line("date_published", <<"2">>),
                  Line("jurisdiction", <<"n">>), Line("doc_type", <<"g">>)>>,
     body |-> 33]

\* the corpora the operator may put in DATA_DIR: the first MaxCorpus of these
CorpusList ==
    << <<>>,
       <<DocTagged>>,
       <<DocLong>>,
       <<DocOther, DocTagged>>,
       <<DocLong, DocTagged>>,
       <<DocOther>>,
       <<DocTagged, DocLong>>,
       <<DocLong, DocLong>> >>

Corpora == {CorpusList[i] : i \in 1..Min(MaxCorpus, Len(CorpusList))}

NoDir == [exists |-> FALSE, files |-> <<>>]
Dir(fs) == [exists |-> TRUE, files |-> fs]

(***************************************************************************)
(* build_index.py                                                          *)
(***************************************************************************)
RECURSIVE SumWords(_)
SumWords(h) == IF h = <<>> THEN 0 ELSE 1 + NumWords(Head(h).v) + SumWords(Tail(h))

\* len(text.split()) of a file: the header lines are part of the text
TextWords(d) == SumWords(d.header) + d.body

\* the while loop of chunk_text, lines 22-25, for a window of `size` words and
\* an overlap of `overlap` words: words[i:i+size], then i += size - overlap
RECURSIVE chunk_with(_, _, _, _)
chunk_with(n, size, overlap, i) ==
    IF i < n
    THEN <<[lo |-> i, hi |-> Min(i + size, n)]>>
         \o chunk_with(n, size, overlap, i + (size - overlap))
    ELSE <<>>

\* the loop that advances by a whole window plus the overlap
RECURSIVE chunk_from_skipping(_, _)
chunk_from_skipping(n, i) ==
    IF i < n
    THEN <<[lo |-> i, hi |-> Min(i + CHUNK_SIZE_WORDS, n)]>>
         \o chunk_from_skipping(n, i + (CHUNK_SIZE_WORDS + CHUNK_OVERLAP))
    ELSE <<>>

\* chunk_text: the word windows [i, i + CHUNK_SIZE_WORDS) stepping by size - overlap
chunk_from(n, i) == chunk_with(n, CHUNK_SIZE_WORDS, CHUNK_OVERLAP, i)

chunk_text(d) == chunk_from(TextWords(d), 0)

\* the loop over text.splitlines()[:10]: later lines overwrite earlier ones
RECURSIVE parse_header(_, _)
parse_header(meta, h) ==
    IF h = <<>> THEN meta
    ELSE LET ln == Head(h)
         IN  parse_header(
                 IF ln.k \in DOMAIN meta
                 THEN [meta EXCEPT ![ln.k] = strip(ln.v)]
                 ELSE meta,
                 Tail(h))

default_meta(fname) ==
    [source_name |-> <<fname>>, url |-> Empty, date_published |-> Empty,
     jurisdiction |-> Empty, doc_type |-> Empty, city |-> Empty,
     incident_type |-> Empty]

FileName(i) == IF i = 1 THEN "a" ELSE IF i = 2 THEN "b" ELSE "c"

file_meta(fname, d) ==
    parse_header(default_meta(fname), SubSeq(d.header, 1, Min(Len(d.header), HeaderLines)))

\* the records main() appends to docs for one file
file_docs(fname, d) ==
    LET chunks == chunk_text(d)
    IN  [i \in 1..Len(chunks) |->
            [id |-> <<fname, i - 1>>, text |-> chunks[i], meta |-> file_meta(fname, d)]]

RECURSIVE collect_docs(_, _)
collect_docs(files, i) ==
    IF i > Len(files) THEN <<>>
    ELSE (IF files[i].ext \in {"txt", "md"}
          THEN file_docs(FileName(i), files[i])
          ELSE <<>>) \o collect_docs(files, i + 1)

NoFile == [exists |-> FALSE, content |-> <<>>]
File(c) == [exists |-> TRUE, content |-> c]

\* model.encode + index.add: one vector per text, in order; a vector is named
\* by the text it embeds
embed(ds) == [i \in 1..Len(ds) |-> [of |-> ds[i].id[1], text |-> ds[i].text]]

Exit(code, why, n) == [returncode |-> code, why |-> why, built |-> n]
NotRun == Exit(0, "not_run", 0)
NoPrior == <<NoFile, NoFile>>

(***************************************************************************)
(* What a call has just handed to its caller: an exception, a retrieve     *)
(* result, an HTTP response, the exit of a build the operator started.     *)
(* The caller takes it (returns) before anything else happens. The result  *)
(* of subprocess.run is a local of rebuild_index: it stays until /ingest   *)
(* has answered.                                                           *)
(***************************************************************************)
NoError == [kind |-> "none", missing |-> "none"]
Error(kind, missing) == [kind |-> kind, missing |-> missing]

NoIndex == [loaded |-> FALSE, vecs |-> <<>>]
Index(v) == [loaded |-> TRUE, vecs |-> v]

\* the value None of _rag_pipeline and _query_handler
None == [none |-> TRUE, index |-> NoIndex, metadata |-> <<>>, embedding_model |-> FALSE]

Raised(hits) == [raised |-> TRUE, hits |-> hits, results |-> <<>>]
Returned(hits, rs) == [raised |-> FALSE, hits |-> hits, results |-> rs]

NoStr == [some |-> FALSE, s |-> <<>>]
Str(s) == [some |-> TRUE, s |-> s]

NoCall ==
    [via |-> "none", p |-> None, top_k |-> 0, city |-> NoStr, incident_type |-> NoStr,
     out |-> Raised(<<>>)]

NoHealth == [sent |-> FALSE, index_loaded |-> FALSE]
Health(b) == [sent |-> TRUE, index_loaded |-> b]

NoIngest ==
    [status |-> 0, documents_processed |-> 0, chunks_created |-> 0, build |-> "none"]

Quiet ==
    /\ loadError = NoError
    /\ ret = NoCall
    /\ ingest = NoIngest
    /\ health = NoHealth
    /\ (bexit = NotRun \/ brun = "ingest")

returns ==
    /\ ~Quiet
    /\ loadError' = NoError
    /\ ret' = NoCall
    /\ ingest' = NoIngest
    /\ health' = NoHealth
    /\ bexit' = IF brun = "ingest" THEN bexit ELSE NotRun
    /\ prior' = IF brun = "ingest" THEN prior ELSE NoPrior
    /\ UNCHANGED <<disk, bpc, brun, docs, edits, loader, server>>

(***************************************************************************)
(* build_index.main                                                        *)
(***************************************************************************)
\* the process ends: subprocess.run returns to /ingest, or the shell prompt returns
main_exits(e) ==
    /\ bexit' = e
    /\ docs' = <<>>
    /\ bpc' = IF brun = "ingest" THEN "exited" ELSE "off"
    /\ brun' = IF brun = "ingest" THEN "ingest" ELSE "none"
    /\ prior' = prior

\* main(), lines 29-46: DATA_DIR is missing
main_first_run ==
    /\ Quiet
    /\ bpc = "start"
    /\ ~dataDir.exists
    /\ dataDir' = Dir(<<sample_template>>)
    /\ main_exits(Exit(0, "created_template", 0))
    /\ UNCHANGED <<indexFile, metaFile, edits, loader, server, outs>>

\* main(), lines 48-52: SentenceTransformer(EMBED_MODEL) raises
main_model_fails ==
    /\ Quiet
    /\ bpc = "start"
    /\ dataDir.exists
    /\ main_exits(Exit(0, "model_failed", 0))
    /\ UNCHANGED <<disk, edits, loader, server, outs>>

\* main(), lines 54-71: no chunk was collected
main_no_docs ==
    /\ Quiet
    /\ bpc = "start"
    /\ dataDir.exists
    /\ collect_docs(dataDir.files, 1) = <<>>
    /\ main_exits(Exit(0, "no_docs", 0))
    /\ UNCHANGED <<disk, edits, loader, server, outs>>

\* main(), lines 73-74: model.encode raises, the process dies with a traceback
main_encode_fails ==
    /\ Quiet
    /\ bpc = "start"
    /\ dataDir.exists
    /\ collect_docs(dataDir.files, 1) # <<>>
    /\ main_exits(Exit(1, "encode_failed", 0))
    /\ UNCHANGED <<disk, edits, loader, server, outs>>

\* main(), lines 54-78: docs collected and embedded, nothing written yet
main_embed ==
    /\ Quiet
    /\ bpc = "start"
    /\ dataDir.exists
    /\ collect_docs(dataDir.files, 1) # <<>>
    /\ docs' = collect_docs(dataDir.files, 1)
    /\ bpc' = "write_index"
    /\ UNCHANGED <<disk, brun, bexit, prior, edits, loader, server, outs>>

\* main(), line 79: faiss.write_index
main_write_index ==
    /\ Quiet
    /\ bpc = "write_index"
    /\ indexFile' = File(embed(docs))
    /\ bpc' = "open_meta"
    /\ UNCHANGED <<dataDir, metaFile, brun, docs, bexit, prior, edits, loader, server, outs>>

\* main(), line 80: open(..., "w") truncates metadata.jsonl
main_open_meta ==
    /\ Quiet
    /\ bpc = "open_meta"
    /\ metaFile' = File(<<>>)
    /\ bpc' = "write_meta"
    /\ UNCHANGED <<dataDir, indexFile, brun, docs, bexit, prior, edits, loader, server, outs>>

\* main(), lines 81-83: one record per line, then print("Index built:", len(docs))
main_done ==
    /\ Quiet
    /\ bpc = "write_meta"
    /\ metaFile' = File(docs)
    /\ main_exits(Exit(0, "built", Len(docs)))
    /\ UNCHANGED <<dataDir, indexFile, edits, loader, server, outs>>

\* the build process is killed (or a write raises) while it persists
main_interrupted ==
    /\ Quiet
    /\ bpc \in {"write_index", "open_meta", "write_meta"}
    /\ main_exits(Exit(1, "interrupted", 0))
    /\ UNCHANGED <<disk, edits, loader, server, outs>>

(***************************************************************************)
(* rag_pipeline.py: the pipeline object and retrieve                       *)
(***************************************************************************)
\* RAGPipeline.__init__, lines 31-33: the fields before _load_index runs
new_pipeline ==
    [none |-> FALSE, index |-> NoIndex, metadata |-> <<>>, embedding_model |-> FALSE]

\* Python truthiness of an Optional[str]: None and "" are false
Truthy(o) == o.some /\ o.s # <<>>

\* str(meta.get(key, "") or "")
meta_get(meta, key) == IF key \in DOMAIN meta THEN meta[key] ELSE Empty

\* one filter that passes only a record value that contains the filter value
passes_filter_one_way(meta, key, wanted) ==
    IF Truthy(wanted)
    THEN contains(lower(strip(meta_get(meta, key))), lower(strip(wanted.s)))
    ELSE TRUE

\* one filter that a record without a value for the key fails
passes_filter_tagged_only(meta, key, wanted) ==
    IF Truthy(wanted)
    THEN LET meta_val == lower(strip(meta_get(meta, key)))
             want == lower(strip(wanted.s))
         IN  /\ meta_val # Empty
             /\ (contains(meta_val, want) \/ contains(want, meta_val))
    ELSE TRUE

\* one filter of matches_filters, lines 102-105 (city) and 106-109 (incident_type)
passes_filter(meta, key, wanted) ==
    IF Truthy(wanted)
    THEN LET meta_val == lower(strip(meta_get(meta, key)))
             want == lower(strip(wanted.s))
         IN  ~(~contains(meta_val, want) /\ ~contains(want, meta_val))
    ELSE TRUE

\* matches_filters, lines 101-110
matches_filters(meta, city, incident_type) ==
    /\ passes_filter(meta, "city", city)
    /\ passes_filter(meta, "incident_type", incident_type)

\* the rankings a query can give the n stored vectors: every order of 0..n-1
Rankings(n) ==
    {o \in [1..n -> 0..(n - 1)] : \A i, j \in 1..n : i # j => o[i] # o[j]}

\* self.index.search(query_embedding, k), k > 0: the k best positions with their
\* inner products, best first; slots beyond the stored vectors hold -1
search(vecs, order, k) ==
    [r \in 1..k |->
        IF r <= Len(vecs)
        THEN [idx |-> order[r], dist |-> Len(vecs) - r + 1]
        ELSE [idx |-> -1, dist |-> 0]]

\* self.metadata[idx]: a negative idx counts from the end of the list
list_item(list, idx) ==
    IF idx >= 0 THEN list[idx + 1] ELSE list[Len(list) + idx + 1]

\* chunk_data, lines 118-123; pos records the idx it was read at
chunk_data(meta, hit) ==
    [chunk |-> meta, similarity_score |-> hit.dist, pos |-> hit.idx]

\* the stored record with the keys of lines 121-123 set on it: chunk_data = meta
stored_after_aliased(meta, hit) ==
    [k \in DOMAIN meta \cup {"similarity_score"} |->
        IF k = "similarity_score" THEN hit.dist ELSE meta[k]]

\* self.metadata[idx] after lines 118-123: chunk_data is meta.copy(), so the
\* keys set on chunk_data are not set on the stored record
stored_after(meta, hit) == meta

\* the loop of lines 112-126 from the i-th hit on
RECURSIVE collect(_, _, _, _, _, _, _)
collect(metadata, hits, i, results, top_k, city, incident_type) ==
    IF i > Len(hits) THEN results
    ELSE IF hits[i].idx < Len(metadata)
    THEN LET meta == list_item(metadata, hits[i].idx)
         IN  IF ~matches_filters(meta, city, incident_type)
             THEN collect(metadata, hits, i + 1, results, top_k, city, incident_type)
             ELSE LET more == Append(results, chunk_data(meta, hits[i]))
                  IN  IF Len(more) >= top_k THEN more
                      ELSE collect(metadata, hits, i + 1, more, top_k, city,
                                   incident_type)
    ELSE collect(metadata, hits, i + 1, results, top_k, city, incident_type)

\* the k passed to search, line 96
search_k(p, top_k) == Min(top_k, Len(p.metadata))

\* RAGPipeline.retrieve, lines 82-128. `order` is the ranking the query gives the
\* stored vectors; `k0` is what index.search does when asked for k <= 0 results,
\* which depends on the faiss release: it raises, or it returns no hits
retrieve(p, top_k, city, incident_type, order, k0) ==
    IF ~p.index.loaded \/ ~p.embedding_model THEN Raised(<<>>)
    ELSE IF search_k(p, top_k) <= 0
    THEN (IF k0 = "raise" THEN Raised(<<>>) ELSE Returned(<<>>, <<>>))
    ELSE LET hits == search(p.index.vecs, order, search_k(p, top_k))
         IN  Returned(hits,
                      collect(p.metadata, hits, 1, <<>>, top_k, city, incident_type))

\* is_loaded without its test of the metadata list
is_loaded_without_metadata(p) == p.index.loaded /\ p.embedding_model

\* the place in self.metadata that idx reads
list_place(list, idx) == IF idx >= 0 THEN idx + 1 ELSE Len(list) + idx + 1

\* self.metadata after the loop of lines 112-126 has built `results`
metadata_after(metadata, results) ==
    [j \in 1..Len(metadata) |->
        IF \E r \in 1..Len(results) : list_place(metadata, results[r].pos) = j
        THEN LET r == CHOOSE r \in 1..Len(results) :
                          list_place(metadata, results[r].pos) = j
             IN  stored_after(metadata[j],
                              [idx |-> results[r].pos,
                               dist |-> results[r].similarity_score])
        ELSE metadata[j]]

\* the instance after retrieve has returned or raised: retrieve assigns no
\* attribute of self
pipeline_after(p, out) ==
    [p EXCEPT !.metadata = metadata_after(p.metadata, out.results)]

\* RAGPipeline.is_loaded, lines 137-141
is_loaded(p) == p.index.loaded /\ p.embedding_model /\ Len(p.metadata) > 0

(***************************************************************************)
(* RAGPipeline() as run by get_rag_pipeline and reload_rag_pipeline        *)
(***************************************************************************)
\* _load_index, lines 41-45
IndexMissing == Error("FileNotFoundError", "index")
\* _load_index, lines 47-51
MetadataMissing == Error("FileNotFoundError", "metadata")
\* _load_index, lines 64-67
ModelFailed == Error("RuntimeError", "model")

\* what _load_index raises before it reads anything, lines 41-51
load_check ==
    IF ~indexFile.exists THEN IndexMissing
    ELSE IF ~metaFile.exists THEN MetadataMissing
    ELSE NoError

NoHandler == [none |-> TRUE, rag_pipeline |-> None]
\* QueryHandler.__init__, line 29
Handler(p) == [none |-> FALSE, rag_pipeline |-> p]

\* rebuild_index, lines 131-139: the count parsed from "Index built: N"
doc_count(e) == IF e.why = "built" THEN e.built ELSE 0

\* rebuild_index, lines 141-145
IngestOk(e) ==
    [status |-> 200, documents_processed |-> doc_count(e),
     chunks_created |-> doc_count(e), build |-> e.why]

\* rebuild_index, lines 118-122
IngestFailed(e) ==
    [status |-> 500, documents_processed |-> 0, chunks_created |-> 0, build |-> e.why]

\* /ingest sends its response: the request is over
ingest_responds(r) ==
    /\ ingest' = r
    /\ bexit' = NotRun
    /\ bpc' = "off"
    /\ brun' = "none"
    /\ UNCHANGED <<docs, prior>>

\* load_raises with health_check letting the exception escape: no response
load_raises_uncaught(caller, e) ==
    /\ loadError' = e
    /\ lpc' = "idle"
    /\ lfor' = "none"
    /\ loading' = None
    /\ health' = health
    /\ IF caller = "reload"
       THEN ingest_responds(IngestOk(bexit))
       ELSE UNCHANGED <<ingest, builder>>
    /\ UNCHANGED <<disk, edits, server, ret>>

\* the constructor raised: what its caller does with the exception
\*   health_check, lines 218-219: index_loaded = False
\*   get_query_handler, lines 40-44: HTTP 500, _query_handler stays None
\*   rebuild_index, lines 127-129: a warning, then the success response
load_raises(caller, e) ==
    /\ loadError' = e
    /\ lpc' = "idle"
    /\ lfor' = "none"
    /\ loading' = None
    /\ health' = IF caller = "get_health" THEN Health(FALSE) ELSE health
    /\ IF caller = "reload"
       THEN ingest_responds(IngestOk(bexit))
       ELSE UNCHANGED <<ingest, builder>>
    /\ UNCHANGED <<disk, edits, server, ret>>

\* the reference assigned when the constructor has returned:
\* get_rag_pipeline line 157, reload_rag_pipeline line 166
install(p) ==
    /\ rag_pipeline' = p
    /\ installedBy' = IF lfor = "reload" THEN "reload" ELSE "get"

\* load_begins with the instance published as soon as its index is read
load_begins_published(caller) ==
    /\ load_check = NoError
    /\ loading' = [new_pipeline EXCEPT !.index = Index(indexFile.content)]
    /\ lpc' = "read_meta"
    /\ lfor' = caller
    /\ rag_pipeline' = loading'
    /\ UNCHANGED <<disk, builder, edits, installedBy, query_handler, outs>>

\* __init__ lines 31-34 and _load_index lines 41-54: the files exist, the index is read
load_begins(caller) ==
    /\ load_check = NoError
    /\ loading' = [new_pipeline EXCEPT !.index = Index(indexFile.content)]
    /\ lpc' = "read_meta"
    /\ lfor' = caller
    /\ UNCHANGED <<disk, builder, edits, server, outs>>

\* a request that constructs or replaces state can start: no constructor runs,
\* and the event loop is not inside /ingest
CanStart == Quiet /\ lpc = "idle" /\ brun # "ingest"

\* health_check, lines 216-217, with get_rag_pipeline finding an instance
health_check ==
    /\ Quiet
    /\ ~rag_pipeline.none
    /\ health' = Health(is_loaded(rag_pipeline))
    /\ UNCHANGED <<disk, builder, edits, loader, server, loadError, ret, ingest>>

\* health_check with get_rag_pipeline constructing the first instance
health_check_loads ==
    /\ CanStart
    /\ rag_pipeline.none
    /\ \/ load_begins("get_health")
       \/ load_check # NoError /\ load_raises("get_health", load_check)

\* get_query_handler, lines 36-45, with get_rag_pipeline finding an instance
get_query_handler ==
    /\ CanStart
    /\ query_handler.none
    /\ ~rag_pipeline.none
    /\ query_handler' = Handler(rag_pipeline)
    /\ UNCHANGED <<disk, builder, edits, loader, rag_pipeline, installedBy, outs>>

\* get_query_handler with get_rag_pipeline constructing the first instance
get_query_handler_loads ==
    /\ CanStart
    /\ query_handler.none
    /\ rag_pipeline.none
    /\ \/ load_begins("get_handler")
       \/ load_check # NoError /\ load_raises("get_handler", load_check)

\* _load_index, lines 57-69: metadata.jsonl is read, the model loads, and the
\* constructor returns to its caller
load_done ==
    /\ Quiet
    /\ lpc = "read_meta"
    /\ LET p == [loading EXCEPT !.metadata = metaFile.content,
                                !.embedding_model = TRUE]
       IN  /\ install(p)
           /\ query_handler' = IF lfor = "get_handler" THEN Handler(p) ELSE query_handler
           /\ health' = IF lfor = "get_health" THEN Health(is_loaded(p)) ELSE health
    /\ IF lfor = "reload"
       THEN ingest_responds(IngestOk(bexit))
       ELSE UNCHANGED <<ingest, builder>>
    /\ lpc' = "idle"
    /\ lfor' = "none"
    /\ loading' = None
    /\ UNCHANGED <<disk, edits, loadError, ret>>

\* _load_index, lines 57-67: metadata.jsonl is read, SentenceTransformer raises
load_model_fails ==
    /\ Quiet
    /\ lpc = "read_meta"
    /\ load_raises(lfor, ModelFailed)

(***************************************************************************)
(* ai_routes.py: POST /ingest, and build_index.py run by the operator      *)
(***************************************************************************)
\* the operator runs `python build_index.py`
run_build ==
    /\ Quiet
    /\ bpc = "off"
    /\ bpc' = "start"
    /\ brun' = "cli"
    /\ prior' = <<indexFile, metaFile>>
    /\ UNCHANGED <<disk, docs, bexit, edits, loader, server, outs>>

\* rebuild_index, lines 111-116: subprocess.run starts the build
rebuild_index ==
    /\ CanStart
    /\ bpc = "off"
    /\ bpc' = "start"
    /\ brun' = "ingest"
    /\ prior' = <<indexFile, metaFile>>
    /\ UNCHANGED <<disk, docs, bexit, edits, loader, server, outs>>

\* rebuild_index, lines 118-122: the build returned a non-zero code
rebuild_failed ==
    /\ Quiet
    /\ bpc = "exited"
    /\ bexit.returncode # 0
    /\ ingest_responds(IngestFailed(bexit))
    /\ UNCHANGED <<disk, edits, loader, server, loadError, ret, health>>

\* rebuild_index reloading whatever the return code of the build was
reload_rag_pipeline_unchecked ==
    /\ Quiet
    /\ bpc = "exited"
    /\ lpc = "idle"
    /\ \/ load_begins("reload")
       \/ load_check # NoError /\ load_raises("reload", load_check)

\* rebuild_index, lines 124-126: return code 0, reload_rag_pipeline() runs
reload_rag_pipeline ==
    /\ Quiet
    /\ bpc = "exited"
    /\ bexit.returncode = 0
    /\ lpc = "idle"
    /\ \/ load_begins("reload")
       \/ load_check # NoError /\ load_raises("reload", load_check)

(***************************************************************************)
(* retrieve: through the query handler, and called on the current instance *)
(***************************************************************************)
MaxTopK == 3
Cities == {NoStr, Str(Delhi)}
IncidentTypes == {NoStr, Str(upi_fraud)}

Call(via, p, top_k, city, incident_type, order, k0) ==
    [via |-> via, p |-> p, top_k |-> top_k, city |-> city,
     incident_type |-> incident_type,
     out |-> retrieve(p, top_k, city, incident_type, order, k0)]

\* the k0 choices that matter for p: only a search for k <= 0 depends on it
K0s(p, top_k) == IF search_k(p, top_k) <= 0 THEN {"raise", "empty"} ELSE {"raise"}

\* QueryHandler.process_query, lines 164-168: self.rag_pipeline.retrieve with the
\* default top_k. The handler's instance and the installed one are the same
\* object when they are equal.
query_with(via, cities, incident_types) ==
    /\ \E city \in cities, incident_type \in incident_types,
          order \in Rankings(Len(query_handler.rag_pipeline.index.vecs)),
          k0 \in K0s(query_handler.rag_pipeline, TOP_K_RETRIEVAL) :
            \E c \in {Call(via, query_handler.rag_pipeline, TOP_K_RETRIEVAL, city,
                            incident_type, order, k0)} :
                \E after \in {pipeline_after(c.p, c.out)} :
                    /\ ret' = c
                    /\ query_handler' = Handler(after)
                    /\ rag_pipeline' = IF rag_pipeline = c.p THEN after
                                        ELSE rag_pipeline
    /\ UNCHANGED <<disk, builder, edits, loader, installedBy, loadError, ingest, health>>

\* POST /query with the city and incident_type of the requests served
process_query ==
    /\ Quiet
    /\ ~query_handler.none
    /\ query_with("query", Cities, IncidentTypes)

\* get_rag_pipeline().retrieve(query, top_k, city, incident_type)
retrieve_call ==
    /\ Quiet
    /\ ~rag_pipeline.none
    /\ \E top_k \in 1..MaxTopK, city \in Cities, incident_type \in IncidentTypes,
          order \in Rankings(Len(rag_pipeline.index.vecs)) :
            \E k0 \in K0s(rag_pipeline, top_k) :
                \E c \in {Call("direct", rag_pipeline, top_k, city, incident_type,
                                order, k0)} :
                    \E after \in {pipeline_after(c.p, c.out)} :
                        /\ ret' = c
                        /\ rag_pipeline' = after
                        /\ query_handler' = IF query_handler.rag_pipeline = c.p
                                             THEN [query_handler EXCEPT
                                                      !.rag_pipeline = after]
                                             ELSE query_handler
    /\ UNCHANGED <<disk, builder, edits, loader, installedBy, loadError, ingest, health>>

\* the operator changes the documents of DATA_DIR
edit_corpus ==
    /\ Quiet
    /\ edits < MaxEdits
    /\ \E c \in Corpora : dataDir' = Dir(c)
    /\ edits' = edits + 1
    /\ UNCHANGED <<indexFile, metaFile, builder, loader, server, outs>>

Init ==
    /\ dataDir \in {NoDir} \cup {Dir(c) : c \in Corpora}
    /\ indexFile = NoFile
    /\ metaFile = NoFile
    /\ bpc = "off"
    /\ brun = "none"
    /\ docs = <<>>
    /\ bexit = NotRun
    /\ prior = NoPrior
    /\ edits = 0
    /\ rag_pipeline = None
    /\ installedBy = "none"
    /\ query_handler = NoHandler
    /\ lpc = "idle"
    /\ lfor = "none"
    /\ loading = None
    /\ loadError = NoError
    /\ ret = NoCall
    /\ ingest = NoIngest
    /\ health = NoHealth

Next ==
    \/ run_build
    \/ main_first_run
    \/ main_model_fails
    \/ main_no_docs
    \/ main_encode_fails
    \/ main_embed
    \/ main_write_index
    \/ main_open_meta
    \/ main_done
    \/ main_interrupted
    \/ edit_corpus
    \/ health_check
    \/ health_check_loads
    \/ get_query_handler
    \/ get_query_handler_loads
    \/ load_done
    \/ load_model_fails
    \/ rebuild_index
    \/ rebuild_failed
    \/ reload_rag_pipeline
    \/ process_query
    \/ retrieve_call
    \/ returns

Spec == Init /\ [][Next]_vars

\* the build, the loads and the routes, without the retrieve calls
NextServing ==
    \/ run_build
    \/ main_first_run
    \/ main_model_fails
    \/ main_no_docs
    \/ main_encode_fails
    \/ main_embed
    \/ main_write_index
    \/ main_open_meta
    \/ main_done
    \/ main_interrupted
    \/ edit_corpus
    \/ health_check
    \/ health_check_loads
    \/ get_query_handler
    \/ get_query_handler_loads
    \/ load_done
    \/ load_model_fails
    \/ rebuild_index
    \/ rebuild_failed
    \/ reload_rag_pipeline
    \/ returns

SpecServing == Init /\ [][NextServing]_vars

(***************************************************************************)
(* The builder alone, run on one text file of every length up to MaxWords. *)
(***************************************************************************)
MaxWords == 900

\* a .txt file of n words without header lines
Text(n) == [ext |-> "txt", header |-> <<>>, body |-> n]

InitChunker ==
    /\ dataDir \in {Dir(<<Text(n)>>) : n \in 0..MaxWords}
    /\ indexFile = NoFile
    /\ metaFile = NoFile
    /\ bpc = "off"
    /\ brun = "none"
    /\ docs = <<>>
    /\ bexit = NotRun
    /\ prior = NoPrior
    /\ edits = 0
    /\ rag_pipeline = None
    /\ installedBy = "none"
    /\ query_handler = NoHandler
    /\ lpc = "idle"
    /\ lfor = "none"
    /\ loading = None
    /\ loadError = NoError
    /\ ret = NoCall
    /\ ingest = NoIngest
    /\ health = NoHealth

NextChunker ==
    \/ run_build
    \/ main_model_fails
    \/ main_no_docs
    \/ main_encode_fails
    \/ main_embed
    \/ main_write_index
    \/ main_open_meta
    \/ main_done
    \/ main_interrupted
    \/ returns

SpecChunker == InitChunker /\ [][NextChunker]_vars

(***************************************************************************)
(* The server alone, started on the files a build or an interrupted        *)
(* rebuild has left: the index of one corpus with the metadata of the same *)
(* corpus, of another one, or truncated.                                   *)
(***************************************************************************)
Buildable == {c \in Corpora : collect_docs(c, 1) # <<>>}

InitRetrieve ==
    /\ \E c \in Buildable :
           /\ dataDir = Dir(c)
           /\ indexFile = File(embed(collect_docs(c, 1)))
    /\ metaFile \in {File(collect_docs(c, 1)) : c \in Buildable} \cup {File(<<>>)}
    /\ bpc = "off"
    /\ brun = "none"
    /\ docs = <<>>
    /\ bexit = NotRun
    /\ prior = NoPrior
    /\ edits = 0
    /\ rag_pipeline = None
    /\ installedBy = "none"
    /\ query_handler = NoHandler
    /\ lpc = "idle"
    /\ lfor = "none"
    /\ loading = None
    /\ loadError = NoError
    /\ ret = NoCall
    /\ ingest = NoIngest
    /\ health = NoHealth

NextRetrieve ==
    \/ health_check
    \/ health_check_loads
    \/ get_query_handler
    \/ get_query_handler_loads
    \/ load_done
    \/ load_model_fails
    \/ process_query
    \/ retrieve_call
    \/ returns

SpecRetrieve == InitRetrieve /\ [][NextRetrieve]_vars

(***************************************************************************)
(* The server started on an index of one chunk whose metadata record       *)
(* carries city and incident_type at the top level, where matches_filters  *)
(* reads them, queried with every pair of filter values.                   *)
(***************************************************************************)
MaxValues == 6

ValueList ==
    <<Mumbai, mumbai_central, Mumbai_Central, Delhi, Blank, Empty, upi_fraud, UPI>>

FilterValues == {ValueList[i] : i \in 1..Min(MaxValues, Len(ValueList))}

FilterArgs == {NoStr} \cup {Str(v) : v \in FilterValues}

FlatRecord(city, incident_type) ==
    [id |-> <<"a", 0>>, text |-> [lo |-> 0, hi |-> 1], city |-> city,
     incident_type |-> incident_type]

InitFilter ==
    /\ dataDir = NoDir
    /\ \E x \in FilterValues, t \in FilterValues :
           /\ indexFile = File(embed(<<FlatRecord(x, t)>>))
           /\ metaFile = File(<<FlatRecord(x, t)>>)
    /\ bpc = "off"
    /\ brun = "none"
    /\ docs = <<>>
    /\ bexit = NotRun
    /\ prior = NoPrior
    /\ edits = 0
    /\ rag_pipeline = None
    /\ installedBy = "none"
    /\ query_handler = NoHandler
    /\ lpc = "idle"
    /\ lfor = "none"
    /\ loading = None
    /\ loadError = NoError
    /\ ret = NoCall
    /\ ingest = NoIngest
    /\ health = NoHealth

\* POST /query with any pair of filter values
filter_query ==
    /\ Quiet
    /\ ~query_handler.none
    /\ query_with("filter", FilterArgs, FilterArgs)

NextFilter ==
    \/ get_query_handler_loads
    \/ load_done
    \/ load_model_fails
    \/ filter_query
    \/ returns

SpecFilter == InitFilter /\ [][NextFilter]_vars

(***************************************************************************)
(* The server started on the index of one set of records: the records the  *)
(* builder writes for a corpus, which carry city and incident_type under   *)
(* "meta" and not at the top level, or one record that carries them at the *)
(* top level. Queried with every pair of filter values.                    *)
(***************************************************************************)
RecordLists ==
    {collect_docs(c, 1) : c \in Buildable}
        \cup {<<FlatRecord(x, t)>> : x \in FilterValues, t \in FilterValues}

InitUntagged ==
    /\ dataDir = NoDir
    /\ \E rs \in RecordLists :
           /\ indexFile = File(embed(rs))
           /\ metaFile = File(rs)
    /\ bpc = "off"
    /\ brun = "none"
    /\ docs = <<>>
    /\ bexit = NotRun
    /\ prior = NoPrior
    /\ edits = 0
    /\ rag_pipeline = None
    /\ installedBy = "none"
    /\ query_handler = NoHandler
    /\ lpc = "idle"
    /\ lfor = "none"
    /\ loading = None
    /\ loadError = NoError
    /\ ret = NoCall
    /\ ingest = NoIngest
    /\ health = NoHealth

SpecUntagged == InitUntagged /\ [][NextFilter]_vars

(***************************************************************************)
(* Properties                                                              *)
(***************************************************************************)
Called == ret # NoCall
Results == ret.out.results

\* neither string contains the other, ignoring case
Unrelated(a, b) ==
    /\ ~contains(lower(a), lower(b))
    /\ ~contains(lower(b), lower(a))

\* the filter value `wanted` rules out a record whose header set `key` to a
\* non-empty value unrelated to it
RuledOut(rec, key, wanted) ==
    /\ Truthy(wanted)
    /\ rec.meta[key] # Empty
    /\ Unrelated(rec.meta[key], wanted.s)

\* C1: retrieve on an index made by the builder returns no chunk of a document
\* whose header city (or incident_type) is non-empty and unrelated to the
\* filter that was supplied for it.
C1_FilterExcludes ==
    Called =>
        \A i \in 1..Len(Results) :
            /\ ~RuledOut(Results[i].chunk, "city", ret.city)
            /\ ~RuledOut(Results[i].chunk, "incident_type", ret.incident_type)

\* C2: once reload_rag_pipeline has installed a pipeline, a retrieve issued
\* through QueryHandler.process_query searches that pipeline's index and
\* metadata.
C2_QueryUsesReloaded ==
    (ret.via = "query" /\ installedBy = "reload") => ret.p = rag_pipeline

\* the hits that are positions of stored vectors
IsCandidate(p, h) == h.idx >= 0 /\ h.idx < Len(p.index.vecs)

\* the results the candidates among hits[i..] give: those with a record that
\* passes the filters, in the order of the search
RECURSIVE PassingCandidates(_, _, _, _, _)
PassingCandidates(p, hits, i, city, incident_type) ==
    IF i > Len(hits) THEN <<>>
    ELSE LET h == hits[i]
             rest == PassingCandidates(p, hits, i + 1, city, incident_type)
         IN  IF /\ IsCandidate(p, h)
                /\ h.idx < Len(p.metadata)
                /\ matches_filters(p.metadata[h.idx + 1], city, incident_type)
             THEN <<chunk_data(p.metadata[h.idx + 1], h)>> \o rest
             ELSE rest

\* C3: what retrieve returns is exactly the search's top min(top_k, n)
\* candidates that pass the filters, in the search's order (non-increasing
\* similarity_score), at most top_k of them.
C3_FilteredTopK ==
    (Called /\ ~ret.out.raised) =>
        /\ Len(ret.out.hits) = Min(ret.top_k, Len(ret.p.metadata))
        /\ Results = PassingCandidates(ret.p, ret.out.hits, 1, ret.city,
                                       ret.incident_type)
        /\ Len(Results) <= ret.top_k
        /\ \A i \in 1..(Len(Results) - 1) :
               Results[i].similarity_score >= Results[i + 1].similarity_score

\* C4: without filters, retrieve on a loaded index of n vectors returns
\* exactly min(top_k, n) results and raises nothing.
C4_ClampedCount ==
    (Called /\ ~Truthy(ret.city) /\ ~Truthy(ret.incident_type)) =>
        /\ ~ret.out.raised
        /\ Len(Results) = Min(ret.top_k, Len(ret.p.index.vecs))

\* C5: every pipeline that loaded successfully holds as many vectors as
\* metadata records.
C5_LoadedCountsAgree ==
    ~rag_pipeline.none => Len(rag_pipeline.index.vecs) = Len(rag_pipeline.metadata)

\* the two files are the output of one completed build of some corpus
ValidIndex(pair) ==
    /\ pair[1].exists
    /\ pair[2].exists
    /\ \E c \in Corpora \cup {<<sample_template>>} :
           /\ collect_docs(c, 1) # <<>>
           /\ pair[1].content = embed(collect_docs(c, 1))
           /\ pair[2].content = collect_docs(c, 1)

\* C6: when a build is interrupted while it persists, the two files on disk
\* are still the valid index that was there before the build started.
C6_InterruptKeepsPrior ==
    (bexit.why = "interrupted" /\ ValidIndex(prior)) => <<indexFile, metaFile>> = prior

FullyLoaded(p) == p.index.loaded /\ p.embedding_model

\* C7: _rag_pipeline is assigned only a fully constructed instance (the index
\* and the metadata read from the files, the embedder loaded), by the step in
\* which the constructor returns; once it holds an instance it never holds None
\* again; and a constructor that raises leaves it as it was.
C7_AtomicInstall ==
    [][/\ ~rag_pipeline'.none => FullyLoaded(rag_pipeline')
       /\ ~rag_pipeline.none => ~rag_pipeline'.none
       /\ loadError' # NoError => rag_pipeline' = rag_pipeline
       /\ rag_pipeline' # rag_pipeline =>
              /\ lpc = "read_meta"
              /\ rag_pipeline'.index = loading.index
              /\ rag_pipeline'.metadata = metaFile.content]_vars

\* a reload has just failed while an instance was installed, and that instance
\* is still there
C7_ReloadFailedKeepsOld ==
    /\ loadError # NoError
    /\ ingest.status = 200
    /\ ~rag_pipeline.none
    /\ FullyLoaded(rag_pipeline)

\* C8: a load with metadata.jsonl missing fails with an error kind of its own,
\* distinct from the kind raised for a missing index file, and a load that
\* fails for a missing file leaves no pipeline installed.
C8_DistinctMissingErrors ==
    /\ loadError.missing = "metadata" => loadError.kind # IndexMissing.kind
    /\ loadError.missing \in {"index", "metadata"} => rag_pipeline.none

\* C9: a build that collects no chunk is answered by /ingest as a failure, and
\* leaves both index files as they were.
C9_NoDocsIsFailure ==
    ingest.build = "no_docs" =>
        /\ ingest.status = 500
        /\ <<indexFile, metaFile>> = prior

\* C10: a build whose embedder cannot be initialised, or raises while
\* encoding, ends as a failure (a non-zero return code) and leaves both index
\* files as they were.
C10_EmbedderFailureAborts ==
    bexit.why \in {"model_failed", "encode_failed"} =>
        /\ bexit.returncode # 0
        /\ <<indexFile, metaFile>> = prior

\* C11: a build that finds no DATA_DIR creates it with the template document,
\* writes neither index file, and is answered by /ingest as something other
\* than a successful rebuild.
C11_FirstRunIsDistinct ==
    ingest.build = "created_template" =>
        /\ dataDir.exists
        /\ (edits = 0 => dataDir = Dir(<<sample_template>>))
        /\ <<indexFile, metaFile>> = prior
        /\ ingest.status # 200

\* the RAGPipeline objects of a state: the installed one, the one the query
\* handler holds, the one under construction
Pipelines == {p \in {rag_pipeline, query_handler.rag_pipeline, loading} : ~p.none}

HoldsAll(p) == p.index # NoIndex /\ p.embedding_model = TRUE /\ Len(p.metadata) >= 1

HealthSignal == ~rag_pipeline.none /\ is_loaded(rag_pipeline)

\* C13 as stated: whenever a load has just failed (index file missing, metadata
\* file missing, embedder failing), the health signal is false.
C13_FalseAfterAnyFailure == loadError # NoError => ~HealthSignal

\* C13, amended: a poll of /health always answers; it answers false when the
\* load it started raises; a load that fails while no instance is installed
\* leaves none installed; and the answer is true only for an installed
\* instance that holds an index, an embedder and metadata.
C13_HealthPollsSafely ==
    [][/\ health_check => health'.sent
       /\ (health_check_loads /\ loadError' # NoError) => health' = Health(FALSE)
       /\ (load_model_fails /\ lfor = "get_health") => health' = Health(FALSE)
       /\ (loadError' # NoError /\ rag_pipeline.none) => rag_pipeline'.none
       /\ (health'.sent /\ health'.index_loaded) =>
              (~rag_pipeline'.none /\ HoldsAll(rag_pipeline'))]_vars

\* a poll of /health has just met a load failure with no instance installed
\* and answered false
C13_PollMetFailure ==
    /\ loadError # NoError
    /\ health = Health(FALSE)
    /\ rag_pipeline.none

\* the source files that have a record in a list of records
SourceFiles(records) == {records[i].id[1] : i \in 1..Len(records)}

\* C14: the response of a rebuild that built an index reports the number of
\* source files processed as documents_processed and the number of chunks
\* written as chunks_created.
C14_IndependentCounts ==
    ingest.build = "built" =>
        /\ ingest.chunks_created = Len(metaFile.content)
        /\ ingest.documents_processed = Cardinality(SourceFiles(metaFile.content))

\* bounds of the window sizes and text lengths tried besides the configured ones
MaxSize == 4
MaxSmallWords == 9

\* the words of a window, each named by its position in the text
Words(w) == [j \in 1..(w.hi - w.lo) |-> w.lo + j - 1]

\* text.split(): the words of a text of n words
AllWords(n) == [j \in 1..n |-> j - 1]

\* how many words of window cur are also in window prev
Shared(prev, cur) ==
    Cardinality((prev.lo..(prev.hi - 1)) \cap (cur.lo..(cur.hi - 1)))

\* the chunks from the i-th on, each without the words it shares with its
\* predecessor, concatenated
RECURSIVE Rebuilt(_, _)
Rebuilt(ws, i) ==
    IF i > Len(ws) THEN <<>>
    ELSE LET all == Words(ws[i])
             drop == IF i = 1 THEN 0 ELSE Shared(ws[i - 1], ws[i])
         IN  SubSeq(all, drop + 1, Len(all)) \o Rebuilt(ws, i + 1)

TextsOf(ds) == [i \in 1..Len(ds) |-> ds[i].text]

\* C15: the chunks of a text, each after the first without the words it
\* shares with its predecessor, concatenate to the words of the text, in
\* order: for the configured 450 / 80 on every file and on the docs the build
\* collected, and for every 0 <= overlap < size up to MaxSize on short texts.
C15_ChunksRebuildText ==
    /\ \A k \in 1..Len(dataDir.files) :
           Rebuilt(chunk_text(dataDir.files[k]), 1)
               = AllWords(TextWords(dataDir.files[k]))
    /\ (docs # <<>> /\ Len(dataDir.files) = 1) =>
           Rebuilt(TextsOf(docs), 1) = AllWords(TextWords(dataDir.files[1]))
    /\ \A k \in 1..Len(dataDir.files) :
           TextWords(dataDir.files[k]) <= MaxSmallWords =>
               \A size \in 1..MaxSize : \A overlap \in 0..(size - 1) :
                   Rebuilt(chunk_with(TextWords(dataDir.files[k]), size, overlap, 0), 1)
                       = AllWords(TextWords(dataDir.files[k]))

\* the build has collected three overlapping chunks of one text
C15_ThreeChunksCollected ==
    /\ bpc = "write_index"
    /\ Len(docs) = 3
    /\ docs[2].text.lo < docs[1].text.hi
    /\ docs[3].text.lo < docs[2].text.hi

\* C16: a text of at least one word and fewer than CHUNK_SIZE_WORDS words
\* gives exactly one chunk, and the chunk holds all its words.
C16_ShortTextOneChunk ==
    \A k \in 1..Len(dataDir.files) :
        LET n == TextWords(dataDir.files[k])
        IN  (1 <= n /\ n < CHUNK_SIZE_WORDS) =>
                /\ Len(chunk_text(dataDir.files[k])) = 1
                /\ Words(chunk_text(dataDir.files[k])[1]) = AllWords(n)
                /\ (docs # <<>> /\ Len(dataDir.files) = 1) =>
                       (Len(docs) = 1 /\ Words(docs[1].text) = AllWords(n))

\* C17: a retrieve call, whether it returns results, returns none or raises,
\* leaves the installed instance, the query handler's instance (index,
\* metadata list and every record), the files and any running constructor as
\* they were; it ran on one of the two instances.
C17_RetrieveChangesNothing ==
    [][ret' # NoCall =>
          /\ ret'.p \in {rag_pipeline, query_handler.rag_pipeline}
          /\ rag_pipeline' = rag_pipeline
          /\ query_handler' = query_handler
          /\ installedBy' = installedBy
          /\ UNCHANGED <<disk, loader>>]_vars

\* a retrieve call on the installed instance has just returned results
C17_ReturnedResults ==
    /\ Called
    /\ ~ret.out.raised
    /\ Results # <<>>
    /\ ret.p = rag_pipeline

\* the words of the `key: value` lines that set a field of a record's meta:
\* the header lines come first in the text, one word for `key:` and the words
\* of the value
ParsedHeaderWords(rec) ==
    LET m == rec.meta
        set == {k \in DOMAIN m : m[k] # default_meta(rec.id[1])[k]}
        RECURSIVE Sum(_)
        Sum(ks) == IF ks = {} THEN 0
                   ELSE LET k == CHOOSE k \in ks : TRUE
                        IN  1 + NumWords(m[k]) + Sum(ks \ {k})
    IN  Sum(set)

\* C18: no chunk the builder collects holds a word of the header lines that
\* were parsed into its record's meta.
C18_HeaderNotChunked ==
    \A i \in 1..Len(docs) :
        (docs[i].text.lo..(docs[i].text.hi - 1))
            \cap (0..(ParsedHeaderWords(docs[i]) - 1)) = {}

\* one of the two values contains the other, ignoring case
Related(a, b) == contains(lower(a), lower(b)) \/ contains(lower(b), lower(a))

\* the value a filter argument gives a record field when the two are swapped
AsValue(arg) == IF arg.some THEN arg.s ELSE Empty

\* C19: a record passes a filter whenever its value contains the filter value
\* or the filter value contains it, ignoring case; a record is returned
\* exactly when it passes both filters; and swapping the record's value with
\* the filter's value changes the outcome of neither filter.
C19_FilterSymmetric ==
    ret.via = "filter" =>
        LET rec == ret.p.metadata[1]
            swapped == FlatRecord(AsValue(ret.city), AsValue(ret.incident_type))
        IN  /\ (Truthy(ret.city) /\ Related(rec.city, ret.city.s)) =>
                   passes_filter(rec, "city", ret.city)
            /\ (Truthy(ret.incident_type)
                    /\ Related(rec.incident_type, ret.incident_type.s)) =>
                   passes_filter(rec, "incident_type", ret.incident_type)
            /\ (Results # <<>>) <=>
                   (/\ passes_filter(rec, "city", ret.city)
                    /\ passes_filter(rec, "incident_type", ret.incident_type))
            /\ passes_filter(rec, "city", ret.city)
                   = passes_filter(swapped, "city", Str(rec.city))
            /\ passes_filter(rec, "incident_type", ret.incident_type)
                   = passes_filter(swapped, "incident_type", Str(rec.incident_type))
            /\ matches_filters(rec, ret.city, ret.incident_type)
                   = matches_filters(swapped, Str(rec.city), Str(rec.incident_type))

\* the record with city Mumbai has just been returned for the filter
\* `mumbai central`
C19_ShorterRecordMatches ==
    /\ ret.via = "filter"
    /\ ret.p.metadata[1].city = Mumbai
    /\ ret.city = Str(mumbai_central)
    /\ Results # <<>>

\* C20: every result of retrieve was read at a position the search returned
\* as a hit, a position of a stored vector and of a metadata record; the `no
\* hit` position -1 gives no result.
C20_OnlySearchHits ==
    Called =>
        \A i \in 1..Len(Results) :
            /\ Results[i].pos >= 0
            /\ Results[i].pos < Len(ret.p.index.vecs)
            /\ Results[i].pos < Len(ret.p.metadata)
            /\ \E h \in 1..Len(ret.out.hits) : ret.out.hits[h].idx = Results[i].pos

\* subprocess.run has returned to /ingest with this result
BuildReturned == bpc = "exited" /\ brun = "ingest"

\* C21: in /ingest the constructor of a reload starts, or raises, only in a
\* step taken after the build subprocess has returned with code 0, and only
\* such a constructor assigns _rag_pipeline for a reload; when the build has
\* returned a non-zero code, the next thing /ingest does is answer 500, and
\* until then no constructor starts, no load error is raised and
\* _rag_pipeline, the query handler and the running-constructor state stay
\* as they were.
C21_ReloadOnlyAfterSuccess ==
    [][/\ (lfor' = "reload" /\ lfor # "reload") =>
              (BuildReturned /\ bexit # NotRun /\ bexit.returncode = 0)
       /\ (loadError' # NoError /\ ingest'.status = 200) =>
              \/ lfor = "reload" /\ bexit.returncode = 0
              \/ BuildReturned /\ bexit # NotRun /\ bexit.returncode = 0
       /\ lfor' = "reload" => (bexit' = bexit /\ bexit.returncode = 0)
       /\ (installedBy' = "reload" /\ installedBy # "reload") => lfor = "reload"
       /\ (lfor = "reload" /\ rag_pipeline' # rag_pipeline) =>
              (installedBy' = "reload" /\ ingest'.status = 200)
       /\ (BuildReturned /\ bexit.returncode # 0) =>
              /\ UNCHANGED <<loader, server>>
              /\ loadError' = NoError
              /\ ingest' # ingest => ingest' = IngestFailed(bexit)
       /\ rebuild_failed => ingest' = IngestFailed(bexit)
       /\ ingest'.status = 500 =>
              /\ BuildReturned /\ bexit.returncode # 0
              /\ UNCHANGED <<loader, server>>]_vars

\* /ingest has just answered 500 for a build that was interrupted, with the
\* instance installed before the request still installed
C21_FailedBuildKeptPipeline ==
    /\ ingest.status = 500
    /\ ingest.build = "interrupted"
    /\ ~rag_pipeline.none
    /\ installedBy = "get"
    /\ lpc = "idle"
    /\ loadError = NoError

\* the record has no value for the key: the key is absent, or its value is ""
Untagged(rec, key) == key \notin DOMAIN rec \/ rec[key] = Empty

FilterKeys == {"city", "incident_type"}

\* the filter argument of a call for a key
Wanted(call, key) == IF key = "city" THEN call.city ELSE call.incident_type

\* C22: a record without a value for city (for incident_type) passes the city
\* (incident_type) filter for every filter value; and a retrieve with filters
\* returns every record among the search hits that has no value for one key
\* and passes the filter on the other.
C22_UntaggedPassesEveryFilter ==
    /\ \A p \in Pipelines : \A j \in 1..Len(p.metadata) : \A key \in FilterKeys :
           Untagged(p.metadata[j], key) =>
               \A w \in FilterArgs : passes_filter(p.metadata[j], key, w)
    /\ (ret.via = "filter" /\ ~ret.out.raised) =>
           \A j \in 1..Len(ret.p.metadata) : \A key \in FilterKeys :
               LET rec == ret.p.metadata[j]
                   other == CHOOSE k \in FilterKeys : k # key
               IN  (/\ Untagged(rec, key)
                    /\ passes_filter(rec, other, Wanted(ret, other))
                    /\ \E h \in 1..Len(ret.out.hits) : ret.out.hits[h].idx = j - 1) =>
                       \E i \in 1..Len(Results) :
                           /\ Results[i].pos = j - 1
                           /\ Results[i].chunk = rec

\* a record the builder wrote for a document of city Mumbai, which has no
\* city at its top level, has just been returned for the filter city = Delhi
C22_UntaggedReturned ==
    /\ ret.via = "filter"
    /\ ret.city = Str(Delhi)
    /\ ~ret.incident_type.some
    /\ "city" \notin DOMAIN ret.p.metadata[1]
    /\ ret.p.metadata[1].meta.city = Mumbai
    /\ Len(Results) = 1
    /\ Results[1].chunk = ret.p.metadata[1]
====
